---- MODULE Spec2Model ----
(***************************************************************************)
(* PiMonitor control service (pimonitor_api.py): the flat key=value        *)
(* configuration store, the wpa_supplicant network-block store and the     *)
(* HTTP handlers that compose them under one lock.                         *)
(*                                                                         *)
(* Text is modelled character by character: a text is a sequence of        *)
(* one-character strings, so that substring search, line splitting,        *)
(* stripping and quoting behave as Python's do.                            *)
(***************************************************************************)
EXTENDS Integers, Sequences, FiniteSets, TLC

VARIABLES
    wpaFile,    \* WPA_SUPPLICANT_CONF: its bytes, or Absent
    cfgFile,    \* CONFIG_FILE: its bytes, or Absent
    appended,   \* history: arguments of every block appended so far
    last,       \* the request handled last, with its response and command trace
    pc,         \* per request thread: position in its handler
    req,        \* per request thread: the request being handled
    loc,        \* per request thread: handler locals (cfg, data, ...)
    lock        \* the module-level Lock: its holder, or Free

vars == <<wpaFile, cfgFile, appended, last, pc, req, loc, lock>>

\* a path that does not exist; no text equals it (a text holds one-character strings)
Absent == <<"absent">>
\* Python's None where a text is expected
None == <<"None">>
\* the lock when nobody holds it (holders are thread numbers)
Free == 0

----------------------------------------------------------------------------
(* Python text primitives *)

LF == "\n"
CR == "\r"
QUOTE == "\""
SPACE == " "
Whitespace == {SPACE, LF, CR, "\t"}

\* str.startswith
StartsWith(s, p) == Len(s) >= Len(p) /\ SubSeq(s, 1, Len(p)) = p

\* `needle in contents`
Contains(h, n) == \E i \in 1..(Len(h) - Len(n) + 1) : SubSeq(h, i, i + Len(n) - 1) = n

\* str.strip(chars)
StripChars(s, chars) ==
    LET keep == SelectSeq([i \in 1..Len(s) |-> i], LAMBDA i : s[i] \notin chars)
    IN  IF keep = <<>> THEN <<>> ELSE SubSeq(s, keep[1], keep[Len(keep)])

\* str.strip()
Strip(s) == StripChars(s, Whitespace)

\* 1..Len(s) as a sequence
Indices(s) == [i \in 1..Len(s) |-> i]

\* index of the first occurrence of c in s, 0 when there is none
IndexOf(s, c) ==
    LET at == SelectSeq(Indices(s), LAMBDA i : s[i] = c)
    IN  IF at = <<>> THEN 0 ELSE at[1]

\* str.split(sep): every piece between separators
Split(s, sep) ==
    LET at == SelectSeq(Indices(s), LAMBDA i : s[i] = sep)
        from(k) == IF k = 1 THEN 1 ELSE at[k - 1] + 1
        to(k) == IF k = Len(at) + 1 THEN Len(s) ELSE at[k] - 1
    IN  [k \in 1..(Len(at) + 1) |-> SubSeq(s, from(k), to(k))]

\* the lines of a text as file iteration and str.splitlines give them (line
\* ends dropped; no line after a final line end)
Lines(s) ==
    LET parts == Split(s, LF)
    IN  IF parts[Len(parts)] = <<>> THEN SubSeq(parts, 1, Len(parts) - 1) ELSE parts

\* '\n'.join(lines)
RECURSIVE Join(_)
Join(ls) ==
    IF ls = <<>> THEN <<>>
    ELSE IF Len(ls) = 1 THEN ls[1]
    ELSE ls[1] \o <<LF>> \o Join(Tail(ls))

\* reading in text mode (newline=None): "\r\n" and "\r" both arrive as "\n"
UniversalNewlines(s) ==
    LET kept == SelectSeq(Indices(s), LAMBDA i : ~(s[i] = LF /\ i > 1 /\ s[i - 1] = CR))
    IN  [j \in 1..Len(kept) |-> IF s[kept[j]] = CR THEN LF ELSE s[kept[j]]]

\* open(path).read(): the text of a file that exists
ReadText(bytes) == UniversalNewlines(bytes)

\* line.split('=', 1) of a line holding '=': <<key, value>>
SplitFirstEq(line) ==
    LET i == IndexOf(line, "=")
    IN  <<SubSeq(line, 1, i - 1), SubSeq(line, i + 1, Len(line))>>

\* the text of a literal, character by character
T_network == <<"n","e","t","w","o","r","k","=","{">>
T_ssidEq == <<"s","s","i","d","=">>
T_ssid == <<"s","s","i","d">>
T_scan_ssid == <<"s","c","a","n","_","s","s","i","d">>
T_key_mgmt == <<"k","e","y","_","m","g","m","t">>
T_priority == <<"p","r","i","o","r","i","t","y">>
T_disabled == <<"d","i","s","a","b","l","e","d">>
T_NONE == <<"N","O","N","E">>
T_open == <<"o","p","e","n">>
T_unknown == <<"u","n","k","n","o","w","n">>
T_pskEq == <<"p","s","k","=">>
T_psk == <<"p","s","k">>
T_hidden == <<"h","i","d","d","e","n">>
T_indent == <<" "," "," "," ">>

----------------------------------------------------------------------------
(* ConfigStore.  A configuration (a Python dict) is a sequence of           *)
(* <<key, value>> pairs with distinct keys, in insertion order.             *)

DictHas(d, k) == \E i \in 1..Len(d) : d[i][1] = k

DictGet(d, k, default) ==
    IF DictHas(d, k) THEN d[CHOOSE i \in 1..Len(d) : d[i][1] = k][2] ELSE default

\* d[k] = v: an existing key keeps its place, a new key goes last
DictSet(d, k, v) ==
    IF DictHas(d, k)
    THEN [i \in 1..Len(d) |-> IF d[i][1] = k THEN <<k, v>> ELSE d[i]]
    ELSE Append(d, <<k, v>>)

RECURSIVE LoadLines(_, _)
LoadLines(lines, cfg) ==
    IF lines = <<>> THEN cfg
    ELSE LET line == Strip(lines[1])
         IN  IF line = <<>> \/ StartsWith(line, <<"#">>)
             THEN LoadLines(Tail(lines), cfg)
             ELSE IF IndexOf(line, "=") # 0
                  THEN LET kv == SplitFirstEq(line)
                       IN  LoadLines(Tail(lines), DictSet(cfg, Strip(kv[1]), Strip(kv[2])))
                  ELSE LoadLines(Tail(lines), cfg)

load_config(file) ==
    IF file = Absent THEN <<>> ELSE LoadLines(Lines(ReadText(file)), <<>>)

\* the bytes save_config writes
\* the lines joined, the final newline forgotten
save_config_unterminated(cfg) ==
    Join([i \in 1..Len(cfg) |-> cfg[i][1] \o <<"=">> \o cfg[i][2]])

save_config(cfg) ==
    Join([i \in 1..Len(cfg) |-> cfg[i][1] \o <<"=">> \o cfg[i][2]]) \o <<LF>>

----------------------------------------------------------------------------
(* WifiStore *)

\* f'ssid="{ssid}"'
Needle(ssid) == T_ssidEq \o <<QUOTE>> \o ssid \o <<QUOTE>>

\* the needle built without its quotes
wifi_network_exists_unquoted(file, ssid) ==
    IF file = Absent THEN FALSE ELSE Contains(ReadText(file), T_ssidEq \o ssid)

wifi_network_exists(file, ssid) ==
    IF file = Absent THEN FALSE ELSE Contains(ReadText(file), Needle(ssid))

\* what wpa_passphrase prints for (ssid, passphrase) when it exits 0, as
\* subprocess.run(text=True) hands it over; the 64-digit key is cut to "hex"
PassphraseStdout(ssid, psk) ==
    UniversalNewlines(
        T_network \o <<LF>>
        \o <<"\t">> \o Needle(ssid) \o <<LF>>
        \o <<"\t", "#">> \o T_pskEq \o <<QUOTE>> \o psk \o <<QUOTE, LF>>
        \o <<"\t">> \o T_pskEq \o <<"h", "e", "x", LF>>
        \o <<"}", LF>>)

\* the lines of the tool's output the block keeps
RECURSIVE KeptLines(_)
KeptLines(lines) ==
    IF lines = <<>> THEN <<>>
    ELSE LET line == Strip(lines[1])
         IN  IF line = <<>> \/ StartsWith(line, <<"#">>)
                \/ StartsWith(line, <<"n","e","t","w","o","r","k","=">>)
             THEN KeptLines(Tail(lines))
             ELSE <<line>> \o KeptLines(Tail(lines))

\* psk is None or a non-empty text; toolOk: wpa_passphrase ran and exited 0
generate_network_block(ssid, psk, hidden, toolOk) ==
    LET head == <<T_network, T_indent \o Needle(ssid)>>
                \o (IF hidden THEN <<T_indent \o T_scan_ssid \o <<"=", "1">>>> ELSE <<>>)
        block_lines == IF toolOk
                       THEN KeptLines(Lines(PassphraseStdout(ssid, psk)))
                       ELSE <<T_pskEq \o <<QUOTE>> \o psk \o <<QUOTE>>>>
        body == IF psk # None /\ psk # <<>>
                THEN [i \in 1..Len(block_lines) |-> T_indent \o block_lines[i]]
                ELSE <<T_indent \o T_key_mgmt \o <<"=">> \o T_NONE>>
    IN  Join(head \o body \o <<<<"}">>>>)

\* open(path, 'a').write('\n' + block + '\n'): the file's bytes afterwards
AppendBlock(file, block) ==
    (IF file = Absent THEN <<>> ELSE file) \o <<LF>> \o block \o <<LF>>

\* outcomes of one external command
CmdOutcomes == {"ok", "failed", "absent"}

\* reconfigure_wifi: the commands it runs, in order, each with its outcome, and
\* what it returns; o1 and o2 are the outcomes wpa_cli and systemctl would have
\* a loop that does not return on the first success
reconfigure_wifi_no_return(o1, o2) ==
    [ran |-> <<<<"wpa_cli reconfigure", o1>>, <<"systemctl reload", o2>>>>,
     result |-> (o1 = "ok" \/ o2 = "ok")]

reconfigure_wifi(o1, o2) ==
    IF o1 = "ok" THEN [ran |-> <<<<"wpa_cli reconfigure", o1>>>>, result |-> TRUE]
    ELSE [ran |-> <<<<"wpa_cli reconfigure", o1>>, <<"systemctl reload", o2>>>>,
          result |-> (o2 = "ok")]

IsDigits(v) == v # <<>> /\ \A i \in 1..Len(v) : v[i] \in {"0","1","2","3","4","5","6","7","8","9"}

DigitVal(c) == CHOOSE n \in 0..9 : <<"0","1","2","3","4","5","6","7","8","9">>[n + 1] = c

RECURSIVE ToInt(_)
ToInt(v) == IF v = <<>> THEN 0 ELSE 10 * ToInt(SubSeq(v, 1, Len(v) - 1)) + DigitVal(v[Len(v)])

\* int(value) where it parses, else the raw value
PriorityOf(v) ==
    IF IsDigits(v) THEN ToInt(v)
    ELSE IF Len(v) >= 2 /\ v[1] \in {"-", "+"} /\ IsDigits(Tail(v))
         THEN (IF v[1] = "-" THEN 0 - ToInt(Tail(v)) ELSE ToInt(Tail(v)))
         ELSE v

\* a dict as a function from field name to value
NoBlock == [open |-> FALSE, d |-> <<>>]
NewBlock == [open |-> TRUE, d |-> ("hidden" :> FALSE) @@ ("security" :> T_unknown)]
SetField(b, k, v) == [b EXCEPT !.d = (k :> v) @@ b.d]

\* one `key=value` line inside a block
ParseField(block, line) ==
    LET kv == SplitFirstEq(line)
        key == Strip(kv[1])
        value == StripChars(Strip(kv[2]), {QUOTE})
    IN  IF key = T_ssid THEN SetField(block, "ssid", value)
        ELSE IF key = T_scan_ssid THEN SetField(block, "hidden", value = <<"1">>)
        ELSE IF key = T_key_mgmt
             THEN SetField(block, "security", IF value = T_NONE THEN T_open ELSE value)
        ELSE IF key = T_priority THEN SetField(block, "priority", PriorityOf(value))
        ELSE IF key = T_disabled THEN SetField(block, "disabled", value)
        ELSE block

RECURSIVE ListLines(_, _, _)
ListLines(lines, block, networks) ==
    IF lines = <<>> THEN networks
    ELSE LET line == Strip(lines[1])
             rest == Tail(lines)
         IN  IF StartsWith(line, T_network) THEN ListLines(rest, NewBlock, networks)
             ELSE IF ~block.open THEN ListLines(rest, block, networks)
             ELSE IF line = <<"}">>
                  THEN ListLines(rest, NoBlock,
                                 IF "ssid" \in DOMAIN block.d
                                 THEN Append(networks, block.d) ELSE networks)
             ELSE IF line = <<>> \/ StartsWith(line, <<"#">>) THEN ListLines(rest, block, networks)
             ELSE IF IndexOf(line, "=") = 0 THEN ListLines(rest, block, networks)
             ELSE ListLines(rest, ParseField(block, line), networks)

list_wifi_networks(file) ==
    IF file = Absent THEN <<>> ELSE ListLines(Lines(ReadText(file)), NoBlock, <<>>)

----------------------------------------------------------------------------
(* Request bodies.  A JSON value is [t, v, items]: its type; for a scalar   *)
(* its Python str() text v; for an object its <<name, value>> items in      *)
(* order, for a list its <<index, value>> items.  t = "bad" is a body that  *)
(* does not parse (get_json(force=True) raises, the handler takes {}).      *)

T_True == <<"T","r","u","e">>
T_False == <<"F","a","l","s","e">>
JBad == [t |-> "bad", v |-> <<>>, items |-> <<>>]
JNull == [t |-> "null", v |-> <<>>, items |-> <<>>]
JStr(s) == [t |-> "str", v |-> s, items |-> <<>>]
JNum(digits) == [t |-> "num", v |-> digits, items |-> <<>>]
JBool(b) == [t |-> "bool", v |-> IF b THEN T_True ELSE T_False, items |-> <<>>]
JList(pairs) == [t |-> "list", v |-> <<>>, items |-> pairs]
\* the body [1]
JListOne == JList(<<<<<<"0">>, JNum(<<"1">>)>>>>)
JObj(pairs) == [t |-> "obj", v |-> <<>>, items |-> pairs]

\* Python truthiness
Truthy(j) ==
    CASE j.t = "null" -> FALSE
      [] j.t = "bool" -> j.v = T_True
      [] j.t = "num" -> ToInt(j.v) # 0
      [] j.t = "str" -> j.v # <<>>
      [] OTHER -> j.items # <<>>

\* str(v), for a scalar or an empty container
PyStr(j) ==
    CASE j.t = "null" -> <<"N","o","n","e">>
      [] j.t = "list" -> <<"[", "]">>
      [] j.t = "obj" -> <<"{", "}">>
      [] OTHER -> j.v

UpperCase == <<"A","B","C","D","E","F","G","H","I","J","K","L","M","N","O","P","Q","R","S","T","U","V","W","X","Y","Z">>
LowerCase == <<"a","b","c","d","e","f","g","h","i","j","k","l","m","n","o","p","q","r","s","t","u","v","w","x","y","z">>

\* str.lower()
Lower(s) ==
    [i \in 1..Len(s) |->
        IF \E n \in 1..26 : UpperCase[n] = s[i]
        THEN LowerCase[CHOOSE n \in 1..26 : UpperCase[n] = s[i]] ELSE s[i]]

\* request.get_json(force=True) or {}, with the except branch
GetJsonOrEmpty(body) ==
    IF body.t = "bad" \/ ~Truthy(body) THEN JObj(<<>>) ELSE body

\* data.get(name, default)
Get(data, name, default) == DictGet(data.items, name, default)

\* (data.get('ssid') or '').strip(): a value that is truthy and no string has
\* no strip() and raises AttributeError
SsidRaises(ssid_value) == Truthy(ssid_value) /\ ssid_value.t # "str"

\* the ssid taken as sent, not stripped
SsidOf_unstripped(ssid_value) == IF Truthy(ssid_value) THEN ssid_value.v ELSE <<>>

SsidOf(ssid_value) == IF Truthy(ssid_value) THEN Strip(ssid_value.v) ELSE <<>>

\* the hidden flag as lines 246-250 compute it
HiddenOf(hidden_value) ==
    IF hidden_value.t = "str"
    THEN Lower(hidden_value.v) \in {<<"1">>, <<"t","r","u","e">>, <<"y","e","s">>, <<"o","n">>}
    ELSE Truthy(hidden_value)

\* psk_value of lines 255-260: None, or the text handed to generate_network_block
PskValueOf(psk) ==
    LET p == IF psk.t = "str" THEN JStr(Strip(psk.v)) ELSE psk
    IN  IF ~Truthy(p) THEN None ELSE PyStr(p)

----------------------------------------------------------------------------
(* POST /api/wifi, lines 239-270.  env: what the world does when asked      *)
(* (tool: wpa_passphrase, write: the append, r1/r2: the reconfigure         *)
(* commands).  The result: the file afterwards, the response, the external  *)
(* effects in the order they happened, and the block arguments if appended. *)

Response(file, code, status, reconfigured, trace, args) ==
    [file |-> file, code |-> code, status |-> status, reconfigured |-> reconfigured,
     trace |-> trace, args |-> args]

\* an exception no handler code catches: Flask answers 500
Raised(file) == Response(file, 500, "exception", "n/a", <<>>, <<>>)

\* lines 261-270: generate, append, reconfigure
AddNetwork(file, ssid, psk_value, hidden, env) ==
    LET usesTool == psk_value # None
        block == generate_network_block(ssid, psk_value, hidden, env.tool = "ok")
        t1 == IF usesTool THEN <<<<"wpa_passphrase", env.tool>>>> ELSE <<>>
        rc == reconfigure_wifi(env.r1, env.r2)
    IN  IF ~env.write
        THEN Response(file, 500, "error", "n/a", t1, <<>>)
        ELSE Response(AppendBlock(file, block), 200, "ok",
                      IF rc.result THEN "true" ELSE "false",
                      t1 \o <<<<"append", "ok">>>> \o rc.ran,
                      <<[ssid |-> ssid, psk |-> psk_value, hidden |-> hidden]>>)

api_wifi_post(file, body, env) ==
    LET data == GetJsonOrEmpty(body)
    IN  IF data.t # "obj" THEN Raised(file)
        ELSE LET ssid_value == Get(data, T_ssid, JNull)
                 psk == Get(data, T_psk, JNull)
                 hidden_value == Get(data, T_hidden, JBool(FALSE))
             IN  IF SsidRaises(ssid_value) THEN Raised(file)
                 ELSE LET ssid == SsidOf(ssid_value)
                          hidden == HiddenOf(hidden_value)
                      IN  IF ssid = <<>>
                          THEN Response(file, 400, "error", "n/a", <<>>, <<>>)
                          ELSE IF wifi_network_exists(file, ssid)
                          THEN Response(file, 200, "exists", "n/a", <<>>, <<>>)
                          ELSE AddNetwork(file, ssid, PskValueOf(psk), hidden, env)

----------------------------------------------------------------------------
(* The Wi-Fi surface, one request after another *)

\* most blocks the credentials file is let grow to
MaxBlocks == 2

S_A == <<"A">>
S_padA == <<" ", "A", " ">>
S_Aquote == <<"A", QUOTE>>
S_AcrB == <<"A", CR, "B">>
S_blank == <<" ">>

Pair(name, value) == <<<<name, value>>>>

\* the request bodies sent: unparseable, [], [1], and objects
WifiBodies ==
    { JBad, JList(<<>>), JListOne,
      JObj(Pair(T_ssid, JNull) \o Pair(T_psk, JStr(<<"p">>)) \o Pair(T_hidden, JBool(TRUE))),
      JObj(Pair(T_ssid, JStr(<<>>)) \o Pair(T_hidden, JStr(<<"O", "n">>))),
      JObj(Pair(T_ssid, JStr(S_blank)) \o Pair(T_psk, JStr(<<"p">>))),
      JObj(Pair(T_psk, JStr(<<"p">>))),
      JObj(Pair(T_ssid, JNum(<<"0">>))),
      JObj(Pair(T_ssid, JNum(<<"5">>))),
      JObj(Pair(T_ssid, JStr(S_A))),
      JObj(Pair(T_ssid, JStr(S_padA)) \o Pair(T_psk, JStr(<<"p">>)) \o Pair(T_hidden, JStr(<<"O", "n">>))),
      JObj(Pair(T_ssid, JStr(S_Aquote)) \o Pair(T_hidden, JBool(TRUE))),
      JObj(Pair(T_ssid, JStr(S_Aquote)) \o Pair(T_psk, JStr(S_blank)) \o Pair(T_hidden, JStr(<<"0">>))),
      JObj(Pair(T_ssid, JStr(S_AcrB)) \o Pair(T_psk, JStr(<<"p">>))) }

Envs == [tool : CmdOutcomes, write : BOOLEAN, r1 : CmdOutcomes, r2 : CmdOutcomes]
QuietEnv == [tool |-> "ok", write |-> TRUE, r1 |-> "ok", r2 |-> "ok"]

\* the world answers only what the handler asks: nothing unless the request
\* gets as far as adding a network, the passphrase tool only with a psk, the
\* reconfigure commands only after the append, systemctl only after wpa_cli
EnvsFor(file, body) ==
    LET r == api_wifi_post(file, body, QuietEnv)
    IN  IF r.status # "ok" THEN {QuietEnv}
        ELSE {e \in Envs : /\ (r.args[1].psk = None => e.tool = "ok")
                           /\ (~e.write => e.r1 = "ok")
                           /\ (e.r1 = "ok" => e.r2 = "ok")}

NoRequest ==
    [body |-> JBad, before |-> Absent, code |-> 0, status |-> "none",
     reconfigured |-> "n/a", trace |-> <<>>]

Idle ==
    /\ pc = <<>> /\ req = <<>> /\ loc = <<>> /\ lock = Free

Init ==
    /\ wpaFile \in {Absent, <<>>}
    /\ cfgFile = Absent
    /\ appended = <<>>
    /\ last = NoRequest
    /\ Idle

PostWifi ==
    \E body \in WifiBodies : \E env \in EnvsFor(wpaFile, body) :
        LET r == api_wifi_post(wpaFile, body, env)
        IN  /\ Len(appended) + Len(r.args) <= MaxBlocks
            /\ wpaFile' = r.file
            /\ appended' = appended \o r.args
            /\ last' = [body |-> body, before |-> wpaFile, code |-> r.code,
                        status |-> r.status, reconfigured |-> r.reconfigured,
                        trace |-> r.trace]
            /\ UNCHANGED <<cfgFile, pc, req, loc, lock>>

Next == PostWifi

Spec == Init /\ [][Next]_vars

----------------------------------------------------------------------------
(* Properties of the Wi-Fi surface *)

Handled == last.status # "none"
LastSsidValue == Get(last.body, T_ssid, JNull)
AllBlank(s) == \A i \in 1..Len(s) : s[i] \in Whitespace
SsidsOf(networks) == [i \in 1..Len(networks) |-> networks[i]["ssid"]]

\* the request sent a string ssid that is not blank, and the literal
\* ssid="<ssid>" occurs in the credentials file as it was before the request
SsidAlreadyInFile ==
    /\ Handled /\ last.body.t = "obj" /\ LastSsidValue.t = "str"
    /\ ~AllBlank(LastSsidValue.v)
    /\ last.before # Absent
    /\ Contains(ReadText(last.before), Needle(Strip(LastSsidValue.v)))

\* C1: a POST /api/wifi whose (non-empty) ssid already occurs in the credentials
\* file answers "exists" and changes nothing: the file is as before and neither
\* the passphrase tool nor a reconfigure command was run.
C1_ExistsLeavesFileAlone ==
    SsidAlreadyInFile =>
        /\ last.status = "exists" /\ last.code = 200
        /\ wpaFile = last.before
        /\ last.trace = <<>>

\* C1 happened: a second request for an ssid that an earlier request appended
C1_Witness ==
    SsidAlreadyInFile /\ last.status = "exists" /\ Len(appended) >= 1

\* the request's ssid is empty: the body does not parse, or it is an object
\* whose ssid is missing, null, "" or whitespace only
SsidEmpty ==
    /\ Handled
    /\ \/ last.body.t = "bad"
       \/ /\ last.body.t = "obj"
          /\ \/ LastSsidValue.t = "null"
             \/ LastSsidValue.t = "str" /\ AllBlank(LastSsidValue.v)

C3_NoDuplicateSsids ==
    LET ssids == SsidsOf(list_wifi_networks(wpaFile))
    IN  \A i, j \in 1..Len(ssids) : i # j => ssids[i] # ssids[j]

\* C6: list() of a file made only of appended generated blocks gives one record
\* per appended block, in order, with the ssid and hidden flag the block was
\* generated from, security "open" when it had no psk and another label when it
\* had one.
C6_ListMatchesAppended ==
    LET networks == list_wifi_networks(wpaFile)
    IN  /\ Len(networks) = Len(appended)
        /\ \A i \in 1..Len(appended) :
              /\ networks[i]["ssid"] = appended[i].ssid
              /\ networks[i]["hidden"] = appended[i].hidden
              /\ (networks[i]["security"] = T_open) = (appended[i].psk = None)

\* C7: right after a block generated for an ssid was appended, exists(ssid) is
\* true, for every ssid, psk and hidden value and whatever the passphrase tool did.
C7_ExistsAfterAppend ==
    last.status = "ok" => wifi_network_exists(wpaFile, appended[Len(appended)].ssid)

\* the commands of the last request from its append on
AppendAt == IndexOf([i \in 1..Len(last.trace) |-> last.trace[i][1]], "append")
AfterAppend == SubSeq(last.trace, AppendAt + 1, Len(last.trace))

\* C10: reconfigure() runs wpa_cli reconfigure first and the service reload only
\* when that failed or was absent, nothing after the first success, and is true
\* exactly when one succeeded; a request whose append succeeded answers "ok" with
\* the block in the file and reconfigured true or false, the block having been
\* written before any reconfigure command ran.
C10_ReconfigureOrderAndNonFatal ==
    /\ (Handled /\ AppendAt = 0) =>
          /\ last.status # "ok"
          /\ \A i \in 1..Len(last.trace) :
                last.trace[i][1] \notin {"wpa_cli reconfigure", "systemctl reload"}
    /\ (Handled /\ AppendAt # 0) =>
          /\ last.status = "ok" /\ last.code = 200
          /\ wpaFile # last.before
          /\ Contains(wpaFile, Needle(appended[Len(appended)].ssid))
          /\ \A i \in 1..AppendAt :
                last.trace[i][1] \notin {"wpa_cli reconfigure", "systemctl reload"}
          /\ Len(AfterAppend) \in {1, 2}
          /\ AfterAppend[1][1] = "wpa_cli reconfigure"
          /\ Len(AfterAppend) = 2 <=> AfterAppend[1][2] # "ok"
          /\ Len(AfterAppend) = 2 => AfterAppend[2][1] = "systemctl reload"
          /\ last.reconfigured \in {"true", "false"}
          /\ last.reconfigured = "true" <=> AfterAppend[Len(AfterAppend)][2] = "ok"

\* C10 happened: wpa_cli was absent, the reload failed, and the request still
\* answered "ok" with the block appended
C10_Witness ==
    /\ Handled /\ AppendAt # 0
    /\ AfterAppend = <<<<"wpa_cli reconfigure", "absent">>, <<"systemctl reload", "failed">>>>
    /\ last.status = "ok" /\ last.reconfigured = "false"

----------------------------------------------------------------------------
(* /api/config, lines 204-222, one request after another *)

\* for k, v in data.items(): cfg[k] = str(v)
RECURSIVE MergeItems(_, _)
MergeItems(cfg, items) ==
    IF items = <<>> THEN cfg
    ELSE MergeItems(DictSet(cfg, items[1][1], PyStr(items[1][2])), Tail(items))

ConfigResponse(file, code, status, config, trace) ==
    [file |-> file, code |-> code, status |-> status, config |-> config, trace |-> trace]

\* POST: restart is the outcome systemctl restart would have (never looked at:
\* check=False, and an exception is passed over)
api_config_post(file, body, restart) ==
    LET cfg == load_config(file)
        data == GetJsonOrEmpty(body)
    IN  IF data.t # "obj"
        THEN ConfigResponse(file, 500, "exception", <<>>, <<>>)   \* data.items() raises
        ELSE LET merged == MergeItems(cfg, data.items)
             IN  ConfigResponse(save_config(merged), 200, "ok", merged,
                                <<<<"systemctl restart", restart>>>>)

\* GET
api_config_get(file) == ConfigResponse(file, 200, "ok", load_config(file), <<>>)

\* most lines of a configuration file the service starts with
MaxCfgLines == 2

L_kv == <<"k", "=", "v">>
L_jw == <<"j", "=", "w">>
L_kx == <<"k", "=", "x">>
L_padded == <<" ", "k", " ", "=", " ", "v", " ">>
L_comment == <<"#", "c">>
L_twoeq == <<"k", "=", "a", "=", "b">>
CfgLines == {L_kv, L_jw, L_kx, L_padded, L_comment, <<>>, L_twoeq}

\* every file of at most MaxCfgLines lines, each line ended by a newline, and
\* the same files with the last newline missing
RECURSIVE FilesOfLines(_)
FilesOfLines(n) ==
    IF n = 0 THEN {<<>>}
    ELSE LET shorter == FilesOfLines(n - 1)
         IN  shorter \cup {f \o l \o <<LF>> : f \in shorter, l \in CfgLines}

InitialConfigFiles ==
    LET files == FilesOfLines(MaxCfgLines)
    IN  {Absent} \cup files \cup {SubSeq(f, 1, Len(f) - 1) : f \in files \ {<<>>}}

T_k == <<"k">>
T_n == <<"n">>
ConfigBodies ==
    { JBad, JList(<<>>), JListOne, JNum(<<"5">>),
      JObj(<<>>),
      JObj(Pair(T_k, JStr(<<"x">>))),
      JObj(Pair(T_n, JNum(<<"1">>)) \o Pair(T_k, JBool(TRUE))) }

InitCfg ==
    /\ cfgFile \in InitialConfigFiles
    /\ wpaFile = Absent
    /\ appended = <<>>
    /\ last = [body |-> JBad, before |-> Absent, method |-> "none", code |-> 0,
               status |-> "none", config |-> <<>>, trace |-> <<>>]
    /\ Idle

PostConfig ==
    \E body \in ConfigBodies :
        \E restart \in (IF GetJsonOrEmpty(body).t = "obj" THEN CmdOutcomes ELSE {"ok"}) :
            LET r == api_config_post(cfgFile, body, restart)
            IN  /\ cfgFile' = r.file
                /\ last' = [body |-> body, before |-> cfgFile, method |-> "POST",
                            code |-> r.code, status |-> r.status, config |-> r.config,
                            trace |-> r.trace]
                /\ UNCHANGED <<wpaFile, appended, pc, req, loc, lock>>

GetConfig ==
    LET r == api_config_get(cfgFile)
    IN  /\ last' = [body |-> JBad, before |-> cfgFile, method |-> "GET",
                    code |-> r.code, status |-> r.status, config |-> r.config,
                    trace |-> r.trace]
        /\ UNCHANGED <<cfgFile, wpaFile, appended, pc, req, loc, lock>>

NextCfg == PostConfig \/ GetConfig

SpecCfg == InitCfg /\ [][NextCfg]_vars

----------------------------------------------------------------------------
(* Properties of /api/config *)

\* the last request was a POST that merged nothing: save(load(f)) of the file
EmptyUpdateSaved ==
    /\ last.method = "POST" /\ last.code = 200
    /\ GetJsonOrEmpty(last.body).items = <<>>

\* a file in the format of the configuration file: every line is blank, a
\* `#` comment, or holds a `=`
WellFormedConfig(f) ==
    /\ f # Absent
    /\ \A i \in 1..Len(Lines(ReadText(f))) :
          LET line == Strip(Lines(ReadText(f))[i])
          IN  line = <<>> \/ StartsWith(line, <<"#">>) \/ IndexOf(line, "=") # 0

\* one or more lines, each `key=value` and ended by a newline, no whitespace
\* around a key or a value, no key starting with `#`, no key twice
CanonicalConfig(f) ==
    /\ f # Absent /\ f # <<>>
    /\ f[Len(f)] = LF
    /\ \A i \in 1..Len(f) : f[i] # CR
    /\ LET lines == Split(SubSeq(f, 1, Len(f) - 1), LF)
           key(i) == SplitFirstEq(lines[i])[1]
           val(i) == SplitFirstEq(lines[i])[2]
       IN  /\ \A i \in 1..Len(lines) :
                 /\ IndexOf(lines[i], "=") # 0
                 /\ Strip(key(i)) = key(i) /\ Strip(val(i)) = val(i)
                 /\ ~StartsWith(key(i), <<"#">>)
           /\ \A i, j \in 1..Len(lines) : i # j => key(i) # key(j)

C8_MalformedBodyAbsorbed ==
    (last.method = "POST" /\ last.body.t # "obj") =>
        /\ last.code = 200 /\ last.status = "ok"
        /\ load_config(cfgFile) = load_config(last.before)

----------------------------------------------------------------------------
(* The threaded server (app.run(threaded=True)): each request runs in its   *)
(* own thread, one step per file access or external command; `with lock`    *)
(* is Acquire ... Release, and an exception inside it releases the lock.    *)

\* request threads running at once
NThreads == 2
Threads == 1..NThreads

GET_CONFIG == "GET /api/config"
POST_CONFIG == "POST /api/config"
GET_DEVICES == "GET /api/devices"
POST_RECORD == "POST /api/record"
POST_SNAPSHOT == "POST /api/snapshot"
GET_WIFI == "GET /api/wifi"
POST_WIFI == "POST /api/wifi"

\* an external command that never returns
Hang == "hang"
ToolOutcomes == CmdOutcomes \cup {Hang}

NoLocals ==
    [cfg |-> <<>>, saved |-> FALSE, code |-> 0, status |-> "none", result |-> <<>>]

\* the configuration file the threaded runs start from
StartConfig == L_kv \o <<LF>> \o L_jw \o <<LF>>

T_j == <<"j">>
P_kx == JObj(Pair(T_k, JStr(<<"x">>)))
P_n1 == JObj(Pair(T_n, JNum(<<"1">>)))
P_k2j == JObj(Pair(T_k, JNum(<<"2">>)) \o Pair(T_j, JBool(TRUE)))

\* the requests of the full surface
Requests ==
    { [ep |-> GET_CONFIG, body |-> JBad],
      [ep |-> POST_CONFIG, body |-> P_kx],
      [ep |-> GET_DEVICES, body |-> JBad],
      [ep |-> POST_RECORD, body |-> JObj(<<>>)],
      [ep |-> POST_SNAPSHOT, body |-> JObj(<<>>)],
      [ep |-> GET_WIFI, body |-> JBad],
      [ep |-> POST_WIFI, body |-> JObj(Pair(T_ssid, JStr(S_A)))] }

\* POST /api/config requests only
ConfigPosts == {[ep |-> POST_CONFIG, body |-> b] : b \in {P_kx, P_n1, P_k2j, JListOne}}

InitThreads ==
    /\ cfgFile = StartConfig
    /\ wpaFile = <<>>
    /\ appended = <<>>
    /\ last = NoRequest
    /\ pc = [t \in Threads |-> "idle"]
    /\ req = [t \in Threads |-> [ep |-> "none", body |-> JBad]]
    /\ loc = [t \in Threads |-> NoLocals]
    /\ lock = Free

Goto(t, where) == pc' = [pc EXCEPT ![t] = where]
Answer(t, code, status, result) ==
    loc' = [loc EXCEPT ![t].code = code, ![t].status = status, ![t].result = result]

\* a request arrives and its handler starts: every handler but api_devices
\* opens with `with lock`
Arrive(t, r) ==
    /\ pc[t] = "idle"
    /\ req' = [req EXCEPT ![t] = r]
    /\ Goto(t, IF r.ep = GET_DEVICES THEN "dev_byid" ELSE "acquire")
    /\ UNCHANGED <<cfgFile, wpaFile, appended, last, loc, lock>>

Start(t) == \E r \in Requests : Arrive(t, r)
StartConfigPost(t) == \E r \in ConfigPosts : Arrive(t, r)

\* entering `with lock` without waiting for it
Acquire_no_wait(t) ==
    /\ pc[t] = "acquire"
    /\ lock' = t
    /\ Goto(t, CASE req[t].ep \in {GET_CONFIG, POST_CONFIG} -> "cfg_load"
                 [] req[t].ep \in {POST_RECORD, POST_SNAPSHOT} -> "rec_load"
                 [] req[t].ep = GET_WIFI -> "wifi_list"
                 [] OTHER -> "wifi_add")
    /\ UNCHANGED <<cfgFile, wpaFile, appended, last, req, loc>>

\* `with lock:` entered
Acquire(t) ==
    /\ pc[t] = "acquire"
    /\ lock = Free
    /\ lock' = t
    /\ Goto(t, CASE req[t].ep \in {GET_CONFIG, POST_CONFIG} -> "cfg_load"
                 [] req[t].ep \in {POST_RECORD, POST_SNAPSHOT} -> "rec_load"
                 [] req[t].ep = GET_WIFI -> "wifi_list"
                 [] OTHER -> "wifi_add")
    /\ UNCHANGED <<cfgFile, wpaFile, appended, last, req, loc>>

\* `with lock:` left by its last statement
Release(t) ==
    /\ pc[t] = "release"
    /\ lock' = Free
    /\ Goto(t, IF req[t].ep = GET_WIFI THEN "wifi_status" ELSE "done")
    /\ UNCHANGED <<cfgFile, wpaFile, appended, last, req, loc>>

\* api_config: cfg = load_config(); a GET answers with it
CfgLoad(t) ==
    /\ pc[t] = "cfg_load"
    /\ LET cfg == load_config(cfgFile)
       IN  IF req[t].ep = GET_CONFIG
           THEN /\ loc' = [loc EXCEPT ![t].cfg = cfg, ![t].code = 200, ![t].status = "ok"]
                /\ Goto(t, "release")
           ELSE /\ loc' = [loc EXCEPT ![t].cfg = cfg]
                /\ Goto(t, "cfg_save")
    /\ UNCHANGED <<cfgFile, wpaFile, appended, last, req, lock>>

\* api_config POST: parse the body, merge, save_config(cfg); data.items() on a
\* body that is no object raises and the lock is released on the way out
CfgSave(t) ==
    /\ pc[t] = "cfg_save"
    /\ LET data == GetJsonOrEmpty(req[t].body)
       IN  IF data.t # "obj"
           THEN /\ Answer(t, 500, "exception", <<>>)
                /\ lock' = Free
                /\ Goto(t, "done")
                /\ UNCHANGED cfgFile
           ELSE LET merged == MergeItems(loc[t].cfg, data.items)
                IN  /\ cfgFile' = save_config(merged)
                    /\ loc' = [loc EXCEPT ![t].cfg = merged, ![t].saved = TRUE]
                    /\ Goto(t, "restart")
                    /\ UNCHANGED lock
    /\ UNCHANGED <<wpaFile, appended, last, req>>

\* restart_stream(): systemctl restart, its result ignored; no timeout
Restart(t) ==
    /\ pc[t] = "restart"
    /\ \E o \in ToolOutcomes :
          IF o = Hang
          THEN Goto(t, "hung") /\ UNCHANGED loc
          ELSE Goto(t, "release") /\ Answer(t, 200, "ok", <<>>)
    /\ UNCHANGED <<cfgFile, wpaFile, appended, last, req, lock>>

T_STREAM_MODE == <<"S","T","R","E","A","M","_","M","O","D","E">>
T_MJPEG == <<"M","J","P","E","G">>
T_HTTP_PORT == <<"H","T","T","P","_","P","O","R","T">>
T_RTSP_PORT == <<"R","T","S","P","_","P","O","R","T">>

\* the stream URL of lines 315-323 and 344-350, as <<scheme, port>>
StreamUrl(cfg) ==
    IF DictGet(cfg, T_STREAM_MODE, T_MJPEG) = T_MJPEG
    THEN <<"http", DictGet(cfg, T_HTTP_PORT, <<"8","0","8","0">>)>>
    ELSE <<"rtsp", DictGet(cfg, T_RTSP_PORT, <<"8","5","5","4">>)>>

\* the ffmpeg command: what is read, and how it is written out
FfmpegCommand(cfg, ep) ==
    <<StreamUrl(cfg),
      IF ep = POST_SNAPSHOT THEN "-vframes 1"
      ELSE IF StreamUrl(cfg)[1] = "http" THEN "-c:v libx264 -preset veryfast"
      ELSE "-c copy">>

\* api_record / api_snapshot up to the command: load_config, body, makedirs
RecLoad(t) ==
    /\ pc[t] = "rec_load"
    /\ LET cfg == load_config(cfgFile)
           data == GetJsonOrEmpty(req[t].body)
       IN  IF data.t # "obj"
           THEN /\ Answer(t, 500, "exception", <<>>)
                /\ lock' = Free
                /\ Goto(t, "done")
           ELSE /\ loc' = [loc EXCEPT ![t].cfg = cfg, ![t].result = FfmpegCommand(cfg, req[t].ep)]
                /\ Goto(t, "ffmpeg")
                /\ UNCHANGED lock
    /\ UNCHANGED <<cfgFile, wpaFile, appended, last, req>>

\* run_ffmpeg(cmd): any failure is status "error"; no timeout
Ffmpeg(t) ==
    /\ pc[t] = "ffmpeg"
    /\ \E o \in ToolOutcomes :
          IF o = Hang
          THEN Goto(t, "hung") /\ UNCHANGED loc
          ELSE /\ Goto(t, "release")
               /\ loc' = [loc EXCEPT ![t].code = 200,
                                     ![t].status = IF o = "ok" THEN "ok" ELSE "error"]
    /\ UNCHANGED <<cfgFile, wpaFile, appended, last, req, lock>>

\* directory listings api_devices may find: names under /dev/v4l/by-id (or no
\* such directory) and names under /dev
N_index0 == <<"c","-","v","i","d","e","o","-","i","n","d","e","x","0">>
N_index1 == <<"c","-","v","i","d","e","o","-","i","n","d","e","x","1">>
N_video0 == <<"v","i","d","e","o","0">>
N_null == <<"n","u","l","l">>
ByIdListings == {{}, {N_index1}, {N_index0, N_index1}}
DevListing == {N_video0, N_null}

\* api_devices, first half: the by-id names holding 'video-index0'; none of the
\* lock is taken
DevById(t) ==
    /\ pc[t] = "dev_byid"
    /\ \E names \in ByIdListings :
          LET devices == {n \in names : Contains(n, <<"v","i","d","e","o","-","i","n","d","e","x","0">>)}
          IN  IF devices # {}
              THEN Goto(t, "done") /\ Answer(t, 200, "ok", devices)
              ELSE Goto(t, "dev_raw") /\ UNCHANGED loc
    /\ UNCHANGED <<cfgFile, wpaFile, appended, last, req, lock>>

\* api_devices, the fallback: names under /dev starting with 'video'
DevRaw(t) ==
    /\ pc[t] = "dev_raw"
    /\ Goto(t, "done")
    /\ Answer(t, 200, "ok", {n \in DevListing : StartsWith(n, <<"v","i","d","e","o">>)})
    /\ UNCHANGED <<cfgFile, wpaFile, appended, last, req, lock>>

\* api_wifi GET, inside the lock: networks = list_wifi_networks()
WifiList(t) ==
    /\ pc[t] = "wifi_list"
    /\ loc' = [loc EXCEPT ![t].result = list_wifi_networks(wpaFile)]
    /\ Goto(t, "release")
    /\ UNCHANGED <<cfgFile, wpaFile, appended, last, req, lock>>

\* api_wifi GET, after the lock: current_wifi_ssid() (wpa_cli status) and the
\* is_current marks
WifiStatus(t) ==
    /\ pc[t] = "wifi_status"
    /\ \E current \in {None, S_A, <<Hang>>} :
          IF current = <<Hang>>
          THEN Goto(t, "status_hung") /\ UNCHANGED loc
          ELSE /\ Goto(t, "done")
               /\ Answer(t, 200, "ok",
                         [i \in 1..Len(loc[t].result) |->
                             <<loc[t].result[i]["ssid"],
                               current # None /\ loc[t].result[i]["ssid"] = current>>])
    /\ UNCHANGED <<cfgFile, wpaFile, appended, last, req, lock>>

\* api_wifi POST up to the append: validation, exists, wpa_passphrase, write
WifiAdd(t) ==
    /\ pc[t] = "wifi_add"
    /\ \E tool \in ToolOutcomes, write \in BOOLEAN :
          LET r == api_wifi_post(wpaFile, req[t].body,
                                 [tool |-> tool, write |-> write, r1 |-> "ok", r2 |-> "ok"])
              asksTool == r.trace # <<>> /\ r.trace[1][1] = "wpa_passphrase"
          IN  /\ (tool # "ok" => asksTool)
              /\ (~write => r.code # 400 /\ r.status # "exists")
              /\ IF tool = Hang
                 THEN Goto(t, "hung") /\ UNCHANGED <<wpaFile, appended, loc, lock>>
                 ELSE /\ wpaFile' = r.file
                      /\ appended' = appended \o r.args
                      /\ Answer(t, r.code, r.status, <<>>)
                      /\ IF r.status = "exception"
                         THEN Goto(t, "done") /\ lock' = Free
                         ELSE /\ Goto(t, IF r.status = "ok" THEN "wifi_reconf" ELSE "release")
                              /\ UNCHANGED lock
    /\ UNCHANGED <<cfgFile, last, req>>

\* api_wifi POST after the append: reconfigured = reconfigure_wifi()
WifiReconf(t) ==
    /\ pc[t] = "wifi_reconf"
    /\ \E o1 \in ToolOutcomes, o2 \in ToolOutcomes :
          /\ (o1 \in {"ok", Hang} => o2 = "ok")
          /\ IF Hang \in {o1, o2}
             THEN Goto(t, "hung") /\ UNCHANGED loc
             ELSE /\ Goto(t, "release")
                  /\ Answer(t, 200, "ok", reconfigure_wifi(o1, o2).ran)
    /\ UNCHANGED <<cfgFile, wpaFile, appended, last, req, lock>>

Step(t) ==
    \/ Acquire(t) \/ Release(t)
    \/ CfgLoad(t) \/ CfgSave(t) \/ Restart(t)
    \/ RecLoad(t) \/ Ffmpeg(t)
    \/ DevById(t) \/ DevRaw(t)
    \/ WifiList(t) \/ WifiStatus(t)
    \/ WifiAdd(t) \/ WifiReconf(t)

NextThreads == \E t \in Threads : Start(t) \/ Step(t)

SpecThreads == InitThreads /\ [][NextThreads]_vars

NextConfigPosts ==
    \E t \in Threads :
        StartConfigPost(t) \/ Acquire(t) \/ CfgLoad(t) \/ CfgSave(t) \/ Restart(t) \/ Release(t)

SpecConfigPosts == InitThreads /\ [][NextConfigPosts]_vars

----------------------------------------------------------------------------
(* Properties of the threaded server *)

\* the request has made a file access or started an external command, and has
\* another one to make or one that has not returned
MidWork(t) ==
    \/ pc[t] \in {"cfg_save", "restart", "ffmpeg", "dev_raw", "wifi_reconf",
                  "wifi_status", "hung", "status_hung"}
    \/ pc[t] = "release" /\ req[t].ep = GET_WIFI

\* the request is inside a `with lock` block
InLock(t) ==
    pc[t] \in {"cfg_load", "cfg_save", "restart", "rec_load", "ffmpeg",
               "wifi_list", "wifi_add", "wifi_reconf", "release", "hung"}

\* the request is at work outside any `with lock` block
Unlocked(t) == pc[t] \in {"dev_byid", "dev_raw", "wifi_status", "status_hung"}

\* C4 as stated: the whole set of endpoints is serialized: no two requests are
\* at the same time between their first and last file access or external
\* command.
C4_AllEndpointsSerialized ==
    \A t, u \in Threads : (MidWork(t) /\ MidWork(u)) => t = u

\* C4 as amended: the lock guards the work of GET/POST /api/config, POST
\* /api/record, POST /api/snapshot, POST /api/wifi and the file read of GET
\* /api/wifi: a request inside such a section holds the lock, so no two are
\* inside at once, and while a request is stuck there in a tool call that never
\* returns no waiting request gets in.  GET /api/devices and the status query
\* of GET /api/wifi run without the lock.
C4_LockedSectionsSerialized ==
    /\ [](\A t \in Threads : /\ InLock(t) => lock = t
                            /\ Unlocked(t) => lock # t)
    /\ [][\A t, u \in Threads :
            (pc[t] = "hung" /\ pc[u] = "acquire") => pc'[u] = "acquire"]_vars

\* C4 happened: one request is stuck in a tool call inside the lock, another
\* waits for the lock
C4_Witness ==
    \E t, u \in Threads : pc[t] = "hung" /\ lock = t /\ pc[u] = "acquire"

\* the POST /api/config requests that have saved
Savers == {t \in Threads : loc[t].saved}
Payload(t) == GetJsonOrEmpty(req[t].body).items
Orders(S) == {o \in [1..Cardinality(S) -> S] : \A i, j \in 1..Cardinality(S) : i # j => o[i] # o[j]}

RECURSIVE ApplyInOrder(_, _)
ApplyInOrder(cfg, o) ==
    IF o = <<>> THEN cfg ELSE ApplyInOrder(MergeItems(cfg, Payload(o[1])), Tail(o))

====
